---- MODULE Spec2Model ----
(***************************************************************************)
(* Model of the batch driver of grobid_client/grobid_client.py:            *)
(* GrobidClient.process (directory walk, batching), process_batch          *)
(* (thread pool dispatch, fan-in, reconciliation into artifacts) and       *)
(* process_pdf / process_txt (one backend call with busy retry).           *)
(*                                                                         *)
(* A path is a record [dir, name]: dir is the sequence of directory names  *)
(* from the filesystem root, name is the file name cut into tokens, the    *)
(* stem first and then each dotted or underscored piece (a.grobid.tei.xml  *)
(* is <<"a", ".grobid", ".tei", ".xml">>), so that endswith, splitext and  *)
(* str.replace are computed on the name and not assumed.                   *)
(***************************************************************************)
EXTENDS Integers, Sequences, FiniteSets, TLC

\* ------------------------------------------------------------------ bounds
\* at most MaxTree PDF files in the input tree
MaxTree == 3
\* config["batch_size"] ranges over 1..MaxBatch
MaxBatch == 2
\* at most MaxFaults abnormal events of the backend side in one behaviour:
\* an answer other than 200 with a TEI body, an exception of the transport,
\* a failing open() of an input
MaxFaults == 1
\* at most MaxWriteFailures artifact writes fail in one behaviour
MaxWriteFailures == 1
\* process() is called at most MaxRuns times on the same client
MaxRuns == 2

\* ------------------------------------------------------- program constants
\* the positional arguments process_batch hands to executor.submit after the
\* callable: service, input_file, seven flags, flavor, -1, -1
SubmittedArgs == 12
\* parameters of process_pdf after self
ProcessPdfArity == 12
\* parameters of process_txt after self
ProcessTxtArity == 9
\* the status of the remote "too busy" signal
Busy == 503
\* the only status process_batch accepts as a success
Ok == 200
\* status process_pdf gives a failing open() of the input
OpenFailed == 400
\* status process_pdf gives requests.exceptions.ReadTimeout
TimedOut == 408
\* status of _handle_request_error and _handle_unexpected_error
RequestFailed == 500
\* a status of the remote service that is neither success nor busy
NotFound == 404
\* DEFAULT_CONFIG['timeout'], in seconds
DefaultTimeout == 180
\* sys.getrecursionlimit() of the interpreter: the depth the retry recursion of
\* line 114 can reach
RecursionLimit == 1000
\* each retry adds the frames of _handle_server_busy_retry and process_pdf
FramesPerRetry == 2
\* the frames of a pool thread below the selected_process it calls
WorkerFrames == 5

\* ------------------------------------------------------------------- paths
File(d, nm) == [dir |-> d, name |-> nm]

\* Python's None, for the output argument and for a body
None == << >>
NoneText == "<None>"

InputRoot == <<"data">>
OutputRoot == <<"res">>

\* the PDF files an input tree is drawn from: two of them differ only in the
\* case of the extension
Pdfs ==
    { File(<<"data">>, <<"a", ".pdf">>),
      File(<<"data">>, <<"a", ".PDF">>),
      File(<<"data", "sub">>, <<"a", ".pdf">>) }

\* a file of every input tree that only the citation-list service accepts
Notes == File(<<"data">>, <<"c", ".txt">>)

\* the listing order of names and directories (os.walk lists a directory in
\* the order the operating system gives; the model fixes one)
TokenOrder ==
    << "a", "c", "data", "res", "sub",
       ".pdf", ".PDF", ".txt", ".TXT", ".xml", ".XML", ".grobid", ".tei",
       "_200", "_400", "_404", "_408", "_500", "_503", "_0" >>

Rank(t) == CHOOSE i \in 1..Len(TokenOrder) : TokenOrder[i] = t

RECURSIVE LexLess(_, _)
LexLess(s, t) ==
    IF s = << >> THEN t # << >>
    ELSE IF t = << >> THEN FALSE
    ELSE IF s[1] = t[1] THEN LexLess(Tail(s), Tail(t))
    ELSE Rank(s[1]) < Rank(t[1])

\* os.walk is top-down: the files of a directory before those of its
\* subdirectories
WalkBefore(p, q) ==
    IF p.dir = q.dir THEN LexLess(p.name, q.name) ELSE LexLess(p.dir, q.dir)

RECURSIVE SortPaths(_)
SortPaths(S) ==
    IF S = {} THEN << >>
    ELSE LET m == CHOOSE x \in S : \A y \in S \ {x} : WalkBefore(x, y)
         IN  <<m>> \o SortPaths(S \ {m})

IsPrefix(s, t) == Len(s) <= Len(t) /\ SubSeq(t, 1, Len(s)) = s

\* str.endswith, for a suffix that is one token
endswith(name, ext) == Len(name) >= 1 /\ name[Len(name)] = ext

Extensions == {".pdf", ".PDF", ".txt", ".TXT", ".xml", ".XML", ".grobid", ".tei"}

\* os.path.splitext(name)[0]: the name without its last dotted piece; a
\* leading dot is no extension
splitext(name) ==
    IF Len(name) >= 2 /\ name[Len(name)] \in Extensions
    THEN SubSeq(name, 1, Len(name) - 1)
    ELSE name

ResultSuffix == <<".grobid", ".tei", ".xml">>

StatusToken(status) ==
    CASE status = Ok -> "_200"
      [] status = OpenFailed -> "_400"
      [] status = NotFound -> "_404"
      [] status = TimedOut -> "_408"
      [] status = RequestFailed -> "_500"
      [] status = Busy -> "_503"
      [] OTHER -> "_0"

\* str.replace(old, new): every occurrence, left to right
RECURSIVE Replace(_, _, _)
Replace(s, old, new) ==
    IF Len(s) < Len(old) THEN s
    ELSE IF SubSeq(s, 1, Len(old)) = old
         THEN new \o Replace(SubSeq(s, Len(old) + 1, Len(s)), old, new)
         ELSE <<s[1]>> \o Replace(Tail(s), old, new)

\* the eligibility test of process()'s walk
Eligible(name, svc) ==
    \/ endswith(name, ".pdf")
    \/ endswith(name, ".PDF")
    \/ (svc = "processCitationList" /\ (endswith(name, ".txt") \/ endswith(name, ".TXT")))
    \/ (svc = "processCitationPatentST36" /\ (endswith(name, ".xml") \/ endswith(name, ".XML")))

\* all_input_files after the walk of the tree under root
Walk(files, root, svc) ==
    SortPaths({p \in files : IsPrefix(root, p.dir) /\ Eligible(p.name, svc)})

\* a bug _output_file_name could have: the directory of the input below the
\* root is dropped under an output root
_output_file_name_flat(input_file, input_path, out) ==
    IF out # None
    THEN File(out, splitext(input_file.name) \o ResultSuffix)
    ELSE File(input_file.dir, splitext(input_file.name) \o ResultSuffix)

\* GrobidClient._output_file_name
_output_file_name(input_file, input_path, out) ==
    IF out # None
    THEN File(out \o SubSeq(input_file.dir, Len(input_path) + 1, Len(input_file.dir)),
              splitext(input_file.name) \o ResultSuffix)
    ELSE File(input_file.dir, splitext(input_file.name) \o ResultSuffix)

\* a bug _error_file_name could have: the suffix is not replaced
_error_file_name_same(filename, status) == filename

\* error_filename of process_batch (directory names of the model hold no
\* ".grobid.tei.xml", so the replacement acts on the file name)
_error_file_name(filename, status) ==
    File(filename.dir, Replace(filename.name, ResultSuffix, <<StatusToken(status), ".txt">>))

\* ------------------------------------------------------------------- state
VARIABLES
    service,                \* process(service, ...)
    output,                 \* process(..., output): None or a directory
    n,                      \* process(..., n): max_workers of each batch's pool; a pool
                            \* larger than its batch acts as one of the batch's size
    force,                  \* process(..., force)
    flavor,                 \* process(..., flavor)
    batch_size,             \* self.config["batch_size"]
    disk,                   \* the filesystem: path -> content
    pc,                     \* where the coordinating thread is
    runNo,                  \* calls of process() so far
    all_input_files,        \* process(): the eligible files, in discovery order
    idx,                    \* process(): files of all_input_files taken by the loop
    input_files,            \* process(): the batch being filled / process_batch's list
    callSite,               \* which call of process_batch is running: "loop" or "last"
    processed_files_count,  \* process()
    errors_files_count,     \* process()
    results,                \* process_batch: the futures, in submission order
    pending,                \* process_batch: futures as_completed has not yielded yet
    processed_count,        \* process_batch
    error_count,            \* process_batch
    fut,                    \* the pool's work items: input file -> state of its unit of work
    skipped,                \* log: "already exists, skipping" entries of this run
    warned,                 \* log: the "No eligible files found" warning of this run
    batches,                \* log: the input_files of each process_batch call of this run
    returned,               \* log: process_batch calls of this run that have returned
    backendCalls,           \* log: self.post calls of this run
    fate,                   \* log: what process_batch did with each file of this run
    diskAtStart,            \* log: the filesystem when this run began
    faults,                 \* abnormal events of the backend side so far
    writeFailures,          \* failed artifact writes so far
    probe                   \* a call of one method of the client made by its user
                            \* directly: arguments, progress and result

vars ==
    << service, output, n, force, batch_size, disk, pc, runNo, all_input_files, idx,
       input_files, callSite, processed_files_count, errors_files_count, results,
       pending, processed_count, error_count, fut, skipped, warned, batches, returned,
       backendCalls, fate, diskAtStart, faults, writeFailures, flavor, probe >>

config == << service, output, n, force, batch_size, flavor >>
runLocals == << all_input_files, idx, input_files, processed_files_count, errors_files_count >>
batchLocals == << results, pending, processed_count, error_count >>

Services == {"processFulltextDocument", "processCitationList"}

\* a value of process()'s flavor argument other than the default None
LightFlavor == "article/light"

\* no method is being called directly
NoCall == [fn |-> "none"]

EmptyMap == [x \in {} |-> 0]

Range(s) == {s[i] : i \in 1..Len(s)}

\* the bodies of the model
TeiBody == "<TEI>"
InputBody == "input"

\* what self.post can return for a document: (status, res.text); the text of
\* a response is a string, possibly empty, and never None
Responses ==
    { <<Ok, TeiBody>>, <<Ok, "">>, <<NotFound, "Not Found">>, <<Busy, "busy">> }

\* what self.post can raise
PostExceptions == {"ReadTimeout", "RequestException"}

CanFault == faults < MaxFaults

\* a client and an input tree, before process() is called for one of the
\* services of svcs; faulted and unwritable are the faults of the backend and
\* of the filesystem that have already happened
InitWith(svcs, faulted, unwritable) ==
    /\ service \in svcs
    /\ output = None
    /\ batch_size \in 1..MaxBatch
    /\ n \in 1..batch_size
    /\ force \in BOOLEAN
    /\ flavor = LightFlavor
    /\ probe = NoCall
    /\ \E tree \in SUBSET Pdfs :
          /\ Cardinality(tree) <= MaxTree
          /\ disk = [p \in tree \cup {Notes} |-> InputBody]
    /\ pc = "idle"
    /\ runNo = 0
    /\ all_input_files = << >>
    /\ idx = 0
    /\ input_files = << >>
    /\ callSite = "loop"
    /\ processed_files_count = 0
    /\ errors_files_count = 0
    /\ results = << >>
    /\ pending = {}
    /\ processed_count = 0
    /\ error_count = 0
    /\ fut = EmptyMap
    /\ skipped = 0
    /\ warned = FALSE
    /\ batches = << >>
    /\ returned = 0
    /\ backendCalls = 0
    /\ fate = EmptyMap
    /\ diskAtStart = disk
    /\ faults = faulted
    /\ writeFailures = unwritable

InitOf(svcs) == InitWith(svcs, 0, 0)

Init == InitOf(Services)

\* ------------------------------------------------- the coordinating thread
\* a bug total_files could have: the tree is counted again when the total is
\* read
total_files_live == Len(Walk(DOMAIN disk, InputRoot, service))

\* process(), line 341: total_files = len(all_input_files), once, after the
\* walk
total_files == Len(all_input_files)

\* a bug NoEligible could have: the empty case is not told apart
NoEligible_never(total) == FALSE

\* process(): "if total_files == 0"
NoEligible(total) == total = 0

\* a bug BatchFull could have: ">" for "=="
BatchFull_late(files) == Len(files) > batch_size

\* process(): "if len(input_files) == batch_size_pdf"
BatchFull(files) == Len(files) = batch_size

\* a bug AddTally could have: the batch's count is added twice, as when
\* process_batch had already added it to the run's counter
AddTally_twice(run, batch) == run + batch + batch

\* a bug AddTally could have: "=" for "+="
AddTally_assign(run, batch) == batch

\* process(): "processed_files_count += batch_processed"
AddTally(run, batch) == run + batch

\* os.path.isfile
isfile(path) == path \in DOMAIN disk

\* a bug ShouldSkip could have: the existing artifact is not looked for
ShouldSkip_never(filename) == FALSE

\* a bug ShouldSkip could have: an error artifact counts as a result
ShouldSkip_anyartifact(filename) ==
    ~force /\ \/ isfile(filename)
              \/ \E status \in {NotFound, OpenFailed, TimedOut, RequestFailed} :
                    isfile(_error_file_name(filename, status))

\* process_batch: "if not force and os.path.isfile(filename)"
ShouldSkip(filename) == ~force /\ isfile(filename)

\* a bug IsFailure could have: an empty body is taken for a missing one
IsFailure_empty(status, text) == status # Ok \/ text = NoneText \/ text = ""

\* process_batch: "if status != 200 or text is None"
IsFailure(status, text) == status # Ok \/ text = NoneText

\* process_batch: selected_process
SelectedProcess(svc) == IF svc = "processCitationList" THEN "process_txt" ELSE "process_pdf"

Arity(proc) == IF proc = "process_txt" THEN ProcessTxtArity ELSE ProcessPdfArity

\* a unit of work has ended: with a result or with an exception
Finished(f) == fut[f].st \in {"done", "raised"}

\* a bug FutureDone could have: a future is taken for done without being asked
FutureDone_always(f) == TRUE

\* Future.done(), as the with-block's shutdown(wait=True) and as_completed see it
FutureDone(f) == Finished(f)

\* the work items of the pool that are still to end
Live == {f \in DOMAIN fut : ~Finished(f)}

\* the work items a worker thread is executing
Executing == {f \in DOMAIN fut : fut[f].st \in {"calling", "sleeping"}}

\* the flavor argument process_batch receives from each of its two call sites
\* in process(): the call of the loop passes flavor (line 382), the call for
\* the last batch passes no flavor (lines 390-405), so the default None applies
BatchFlavor(site) == IF site = "loop" THEN flavor ELSE None

NewFuture(proc, ord) ==
    [ batch |-> Len(batches), ord |-> ord, proc |-> proc, st |-> "queued",
      service |-> service, flavor |-> BatchFlavor(callSite),
      status |-> 0, text |-> "",
      calls |-> 0, sleeps |-> 0, busy |-> 0, handles |-> 0, lastStatus |-> 0, lastText |-> "" ]

\* process(), lines 326-351: the walk, the empty case, the counters. A later
\* call on the same client is followed for force=False, where the artifacts
\* of the earlier call decide what is skipped; with force=True a later call
\* looks at no artifact and does what a first call does.
process_enumerate ==
    /\ pc \in {"idle", "done", "raised"}
    /\ runNo < MaxRuns
    /\ runNo = 0 \/ ~force
    /\ LET files == Walk(DOMAIN disk, InputRoot, service)
       IN  /\ all_input_files' = files
           /\ warned' = NoEligible(Len(files))
           /\ pc' = IF NoEligible(Len(files)) THEN "done" ELSE "loop"
    /\ runNo' = runNo + 1
    /\ idx' = 0
    /\ input_files' = << >>
    /\ processed_files_count' = 0
    /\ errors_files_count' = 0
    /\ skipped' = 0
    /\ batches' = << >>
    /\ returned' = 0
    /\ backendCalls' = 0
    /\ fate' = EmptyMap
    /\ diskAtStart' = disk
    /\ UNCHANGED << probe, config, disk, callSite, batchLocals, fut, faults, writeFailures >>

\* the entry of process_batch(input_files): lines 431-440
EnterBatch(files, site) ==
    /\ pc' = "submit"
    /\ callSite' = site
    /\ batches' = Append(batches, files)
    /\ results' = << >>
    /\ pending' = {}
    /\ processed_count' = 0
    /\ error_count' = 0

\* process(), lines 353-386: one turn of "for input_file in all_input_files"
process_loop ==
    /\ pc = "loop"
    /\ idx < total_files
    /\ idx' = idx + 1
    /\ input_files' = Append(input_files, all_input_files[idx + 1])
    /\ IF BatchFull(input_files')
       THEN EnterBatch(input_files', "loop")
       ELSE UNCHANGED << pc, callSite, batches, batchLocals >>
    /\ UNCHANGED << probe, config, disk, runNo, all_input_files, processed_files_count,
                    errors_files_count, fut, skipped, warned, returned, backendCalls,
                    fate, diskAtStart, faults, writeFailures >>

\* process(), lines 388-411: the last batch and the final statistics
process_last ==
    /\ pc = "loop"
    /\ idx = total_files
    /\ IF Len(input_files) > 0
       THEN EnterBatch(input_files, "last")
       ELSE /\ pc' = "done"
            /\ UNCHANGED << callSite, batches, batchLocals >>
    /\ UNCHANGED << probe, config, disk, runNo, runLocals, fut, skipped, warned, returned,
                    backendCalls, fate, diskAtStart, faults, writeFailures >>

\* process_batch, line 443: the path the skip check tests
CheckedPath(input_file) == _output_file_name(input_file, InputRoot, output)

\* a bug WrittenPath could have: the result is placed next to the input root,
\* whatever the directory of the input file
WrittenPath_flat(input_file) ==
    _output_file_name(File(InputRoot, input_file.name), InputRoot, output)

\* process_batch, line 475: the path the reconciliation writes, from the
\* input_file the unit of work returns, which is the one it was given
WrittenPath(input_file) == _output_file_name(input_file, InputRoot, output)

SkipEntry(filename) ==
    [ kind |-> "skipped", batch |-> Len(batches), status |-> 0, text |-> "",
      path |-> filename, content |-> "", written |-> FALSE ]

\* process_batch, lines 441-447: the files of the batch that are skipped
Skipped(files) ==
    {i \in 1..Len(files) : ShouldSkip(CheckedPath(files[i]))}

\* the i-th file of the batch is the k-th future of results
RECURSIVE OrdOf(_, _)
OrdOf(files, i) ==
    IF i = 0 THEN 0
    ELSE OrdOf(files, i - 1) + (IF i \in Skipped(files) THEN 0 ELSE 1)

\* process_batch, lines 441-471: "for input_file in input_files". The loop
\* reads the filesystem, which no worker writes, and only adds to the pool's
\* queue, so it is taken as one step.
submit ==
    /\ pc = "submit"
    /\ LET skip == Skipped(input_files)
           sent == (1..Len(input_files)) \ skip
       IN  /\ skipped' = skipped + Cardinality(skip)
           /\ fate' = [f \in {input_files[i] : i \in skip} |->
                          SkipEntry(CheckedPath(f))] @@ fate
           /\ fut' = [f \in {input_files[i] : i \in sent} |->
                         LET i == CHOOSE j \in sent : input_files[j] = f
                         IN  NewFuture(SelectedProcess(service), OrdOf(input_files, i))] @@ fut
           /\ results' = [k \in 1..Cardinality(sent) |->
                            input_files[CHOOSE j \in sent : OrdOf(input_files, j) = k]]
    /\ pc' = "join"
    /\ UNCHANGED << probe, config, disk, runNo, runLocals, callSite, pending, processed_count,
                    error_count, warned, batches, returned, backendCalls, diskAtStart,
                    faults, writeFailures >>

\* a bug JoinPool could have: shutdown(wait=False), and only the futures that
\* are done are collected
JoinPool_nowait ==
    /\ pc = "join"
    /\ pc' = "reconcile"
    /\ pending' = {f \in Range(results) : Finished(f)}
    /\ UNCHANGED << probe, config, disk, runNo, runLocals, callSite, results,
                    processed_count, error_count, fut, skipped, warned, batches,
                    returned, backendCalls, fate, diskAtStart, faults, writeFailures >>

\* process_batch, line 438: the with-block ends, shutdown(wait=True)
JoinPool ==
    /\ pc = "join"
    /\ \A f \in Range(results) : FutureDone(f)
    /\ pc' = "reconcile"
    /\ pending' = Range(results)
    /\ UNCHANGED << probe, config, disk, runNo, runLocals, callSite, results,
                    processed_count, error_count, fut, skipped, warned, batches,
                    returned, backendCalls, fate, diskAtStart, faults, writeFailures >>

\* a bug Yielded could have: a completed future is handed out again
Yielded_again(f) == pending

\* process_batch, line 473: as_completed hands out each future once
Yielded(f) == pending \ {f}

\* a bug AfterWrite could have: the OSError of a failed write is not caught
AfterWrite_raise(written) == IF written THEN "reconcile" ELSE "raised"

\* process_batch, lines 481-491 and 495-501: "except OSError" only logs, and
\* the loop over the completed futures goes on
AfterWrite(written) == "reconcile"

\* a bug Tally could have: the counter is incremented outside its branch
Tally_always(count, hit) == count + 1

\* process_batch, lines 479 and 493: "error_count += 1" in the failure branch,
\* "processed_count += 1" in the other
Tally(count, hit) == IF hit THEN count + 1 ELSE count

WriteEntry(kind, status, text, path, content, written) ==
    [ kind |-> kind, batch |-> Len(batches), status |-> status, text |-> text,
      path |-> path, content |-> content, written |-> written ]

\* process_batch, lines 473-501: one turn of "for r in as_completed(results)"
Reconcile(f) ==
    /\ pc = "reconcile"
    /\ f \in pending
    /\ FutureDone(f)
    /\ pending' = Yielded(f)
    /\ IF fut[f].st = "raised"
       THEN \* r.result() raises in process_batch, and process() with it
            /\ pc' = "raised"
            /\ fut' = [g \in Live |-> fut[g]]
            /\ UNCHANGED << disk, processed_count, error_count, fate, writeFailures >>
       ELSE LET status == fut[f].status
                text == fut[f].text
                filename == WrittenPath(f)
                failure == IsFailure(status, text)
                path == IF failure THEN _error_file_name(filename, status) ELSE filename
                content == IF text # NoneText THEN text ELSE ""
            IN  /\ error_count' = Tally(error_count, failure)
                /\ processed_count' = Tally(processed_count, ~failure)
                /\ \E written \in BOOLEAN :
                      /\ written \/ writeFailures < MaxWriteFailures
                      /\ disk' = IF written THEN (path :> content) @@ disk ELSE disk
                      /\ writeFailures' = IF written THEN writeFailures ELSE writeFailures + 1
                      /\ fate' = (f :> WriteEntry(IF failure THEN "error" ELSE "ok",
                                                  status, text, path, content, written)) @@ fate
                      /\ pc' = AfterWrite(written)
                /\ UNCHANGED fut
    /\ UNCHANGED << probe, config, runNo, runLocals, callSite, results, skipped, warned,
                    batches, returned, backendCalls, diskAtStart, faults >>

\* process_batch, line 503, and process(), lines 384-386 and 406-411
ReturnBatch ==
    /\ pc = "reconcile"
    /\ pending = {}
    /\ processed_files_count' = AddTally(processed_files_count, processed_count)
    /\ errors_files_count' = AddTally(errors_files_count, error_count)
    /\ input_files' = IF callSite = "loop" THEN << >> ELSE input_files
    /\ pc' = IF callSite = "loop" THEN "loop" ELSE "done"
    /\ returned' = returned + 1
    /\ fut' = [g \in Live |-> fut[g]]
    /\ UNCHANGED << probe, config, disk, runNo, all_input_files, idx, callSite, batchLocals,
                    skipped, warned, batches, backendCalls, fate, diskAtStart, faults, writeFailures >>

\* a bug SlotFree could have: the pool starts a thread for every work item
SlotFree_always(f) == TRUE

\* ------------------------------------------------------ the worker threads
\* ThreadPoolExecutor(max_workers=n): a thread of the batch's pool is free
SlotFree(f) == Cardinality({g \in Executing : fut[g].batch = fut[f].batch}) < n

\* the pool's queue is first in, first out
HeadOfQueue(f) ==
    /\ fut[f].st = "queued"
    /\ \A g \in DOMAIN fut :
          (g # f /\ fut[g].batch = fut[f].batch /\ fut[g].st = "queued")
             => fut[g].ord > fut[f].ord

\* a bug IsBusy could have: every status but 200 is taken for the busy signal
IsBusy_any(status) == status # Ok

\* a bug IsBusy could have: the busy signal is not recognised
IsBusy_never(status) == FALSE

\* process_pdf: "if status == 503"
IsBusy(status) == status = Busy

\* process_pdf, lines 583-592: the status and text of each except clause
ExceptionStatus(e) == IF e = "ReadTimeout" THEN TimedOut ELSE RequestFailed

ExceptionText(e) ==
    CASE e = "ReadTimeout" -> "Request timeout"
      [] e = "RequestException" -> "Request failed"
      [] OTHER -> "Unexpected error"

\* the return of process_pdf: every frame of the retry recursion returns the
\* result of the call it made, and its finally clause closes its handle
Return(rec, status, text) ==
    [rec EXCEPT !.st = "done", !.status = status, !.text = text, !.handles = 0]

\* process_pdf, lines 520-561: open the input, then self.post
OpenAndPost(f, rec) ==
    \E opened \in BOOLEAN :
       /\ opened \/ CanFault
       /\ IF opened
          THEN /\ fut' = [fut EXCEPT ![f] = [rec EXCEPT !.st = "calling",
                                                      !.handles = @ + 1,
                                                      !.calls = @ + 1]]
               /\ backendCalls' = backendCalls + 1
               /\ faults' = faults
          ELSE /\ fut' = [fut EXCEPT ![f] =
                            Return([rec EXCEPT !.lastStatus = 0, !.lastText = ""],
                                   OpenFailed, "Failed to open file")]
               /\ backendCalls' = backendCalls
               /\ faults' = faults + 1

\* a worker thread takes the next work item and calls selected_process with
\* the arguments of executor.submit
WorkerStart(f) ==
    /\ f \in DOMAIN fut
    /\ HeadOfQueue(f)
    /\ SlotFree(f)
    /\ IF SubmittedArgs > Arity(fut[f].proc)
       THEN \* TypeError: the call itself fails, the future holds the exception
            /\ fut' = [fut EXCEPT ![f].st = "raised"]
            /\ UNCHANGED << backendCalls, faults >>
       ELSE OpenAndPost(f, fut[f])
    /\ UNCHANGED << probe, config, disk, pc, runNo, runLocals, callSite, batchLocals, skipped,
                    warned, batches, returned, fate, diskAtStart, writeFailures >>

\* process_pdf, lines 563-581: the response r of self.post is the busy signal
\* or the result
Respond(f, r) ==
    LET rec == [fut[f] EXCEPT !.lastStatus = r[1], !.lastText = r[2]]
    IN  IF IsBusy(r[1])
        THEN \* _handle_server_busy_retry: time.sleep(sleep_time)
             fut' = [fut EXCEPT ![f] = [rec EXCEPT !.st = "sleeping",
                                                   !.busy = @ + 1,
                                                   !.sleeps = @ + 1]]
        ELSE fut' = [fut EXCEPT ![f] = Return(rec, r[1], r[2])]

\* process_pdf, lines 558-592: self.post returns or raises
BackendRespond(f) ==
    /\ f \in DOMAIN fut
    /\ fut[f].st = "calling"
    /\ \/ \E r \in Responses :
             /\ r = <<Ok, TeiBody>> \/ CanFault
             /\ faults' = IF r = <<Ok, TeiBody>> THEN faults ELSE faults + 1
             /\ Respond(f, r)
       \/ \E e \in PostExceptions :
             /\ CanFault
             /\ faults' = faults + 1
             /\ fut' = [fut EXCEPT ![f] =
                          Return([fut[f] EXCEPT !.lastStatus = 0, !.lastText = ""],
                                 ExceptionStatus(e), ExceptionText(e))]
    /\ UNCHANGED << probe, config, disk, pc, runNo, runLocals, callSite, batchLocals, skipped,
                    warned, batches, returned, backendCalls, fate, diskAtStart,
                    writeFailures >>

\* the depth of the frame of process_pdf entered after busy busy signals
CallDepth(busy) == WorkerFrames + FramesPerRetry * busy + 1

\* the frame of process_pdf entered after busy busy signals can still make
\* its calls
CanRecurse(busy) == CallDepth(busy) < RecursionLimit

\* _handle_server_busy_retry, line 114: the sleep is over, retry_func is
\* process_pdf with the same arguments, called from within the call that got
\* the busy signal. When the stack is exhausted the RecursionError is caught
\* by "except Exception" (lines 591-592) and every frame returns its result.
WorkerWake(f) ==
    /\ f \in DOMAIN fut
    /\ fut[f].st = "sleeping"
    /\ IF CanRecurse(fut[f].busy)
       THEN OpenAndPost(f, fut[f])
       ELSE /\ fut' = [fut EXCEPT ![f] =
                         Return([fut[f] EXCEPT !.lastStatus = 0, !.lastText = ""],
                                RequestFailed, ExceptionText("RecursionError"))]
            /\ UNCHANGED << backendCalls, faults >>
    /\ UNCHANGED << probe, config, disk, pc, runNo, runLocals, callSite, batchLocals, skipped,
                    warned, batches, returned, fate, diskAtStart, writeFailures >>

\* ------------------------------------------------------------ specification
Next ==
    \/ process_enumerate
    \/ process_loop
    \/ process_last
    \/ submit
    \/ JoinPool
    \/ \E f \in pending : Reconcile(f)
    \/ ReturnBatch
    \/ \E f \in DOMAIN fut : WorkerStart(f)
    \/ \E f \in DOMAIN fut : BackendRespond(f)
    \/ \E f \in DOMAIN fut : WorkerWake(f)

Spec == Init /\ [][Next]_vars

\* the steps of the thread that called process(), once it has called it
Coordinator ==
    \/ process_loop
    \/ process_last
    \/ submit
    \/ JoinPool
    \/ \E f \in pending : Reconcile(f)
    \/ ReturnBatch

\* the steps of the pool's threads and of the backend they wait for
Workers ==
    \/ \E f \in DOMAIN fut : WorkerStart(f)
    \/ \E f \in DOMAIN fut : BackendRespond(f)
    \/ \E f \in DOMAIN fut : WorkerWake(f)

\* every thread that can run does run, the backend answers every call, and
\* (by MaxFaults) a Job gets the busy signal finitely often; nothing obliges
\* the user to call process() again
FairSpec == Spec /\ WF_vars(Coordinator) /\ WF_vars(Workers)

\* ------------------------------------------- direct calls of one method
\* the variables of process() and its workers
runVars ==
    << config, disk, pc, runNo, runLocals, callSite, batchLocals, fut, skipped, warned,
       batches, returned, backendCalls, fate, diskAtStart, faults, writeFailures >>

\* a client on which process() is not called
Quiet ==
    /\ service = "processFulltextDocument"
    /\ output = None
    /\ batch_size = 1
    /\ n = 1
    /\ force = FALSE
    /\ flavor = None
    /\ disk = EmptyMap
    /\ pc = "idle"
    /\ runNo = 0
    /\ all_input_files = << >>
    /\ idx = 0
    /\ input_files = << >>
    /\ callSite = "loop"
    /\ processed_files_count = 0
    /\ errors_files_count = 0
    /\ results = << >>
    /\ pending = {}
    /\ processed_count = 0
    /\ error_count = 0
    /\ fut = EmptyMap
    /\ skipped = 0
    /\ warned = FALSE
    /\ batches = << >>
    /\ returned = 0
    /\ backendCalls = 0
    /\ fate = EmptyMap
    /\ diskAtStart = EmptyMap
    /\ faults = 0
    /\ writeFailures = 0

\* _output_file_name is called at most MaxResolves times on the same arguments
MaxResolves == 2

\* input files for _output_file_name: several depths, a dotted stem, no
\* extension
ResolveFiles ==
    { File(<<"data">>, <<"a", ".pdf">>),
      File(<<"data">>, <<"a", ".PDF">>),
      File(<<"data">>, <<"c", ".txt">>),
      File(<<"data">>, <<"a", ".v2", ".pdf">>),
      File(<<"data">>, <<"README">>),
      File(<<"data", "sub">>, <<"a", ".pdf">>),
      File(<<"data", "sub", "deep">>, <<"a", ".xml">>) }

ResolveRoots == { <<"data">>, <<"data", "sub">> }

ResolveOutputs == { None, <<"res">>, <<"res", "out">>, <<"data">> }

InitResolve ==
    /\ Quiet
    /\ \E f \in ResolveFiles, root \in ResolveRoots, out \in ResolveOutputs :
          /\ IsPrefix(root, f.dir)
          /\ probe = [ fn |-> "_output_file_name", input_file |-> f, input_path |-> root,
                       output |-> out, filenames |-> << >> ]

\* filename = self._output_file_name(input_file, input_path, output)
call_output_file_name ==
    /\ probe.fn = "_output_file_name"
    /\ Len(probe.filenames) < MaxResolves
    /\ probe' = [probe EXCEPT !.filenames =
                    Append(@, _output_file_name(probe.input_file, probe.input_path,
                                                probe.output))]
    /\ UNCHANGED runVars

NextResolve == call_output_file_name

SpecResolve == InitResolve /\ [][NextResolve]_vars

\* ---- process_pdf and process_txt called directly, as the tests call them
\* a direct call gets the busy signal at most MaxBusy times
MaxBusy == 2

\* values of config['timeout']
Timeouts == {DefaultTimeout, 60}

\* the timeout keywords of a self.post call made without one: no deadline
NoTimeout == {}

UnitMethods == {"process_pdf", "process_txt"}

UnitFiles == { File(<<"data">>, <<"a", ".pdf">>), Notes }

\* the timeout keywords of the self.post call of each method: process_pdf
\* passes timeout=self.config['timeout'] (line 560), process_txt passes none
\* (lines 634-636)
PostTimeout(fn, configured) == IF fn = "process_pdf" THEN {configured} ELSE NoTimeout

\* the status each method gives a failing open() of its input: lines 583-585
\* and 616-618
UnitOpenFailed(fn) == IF fn = "process_pdf" THEN OpenFailed ELSE RequestFailed

\* the status each method gives an exception of self.post: process_txt has no
\* clause for ReadTimeout, which is a RequestException (lines 652-653)
UnitExceptionStatus(fn, e) == IF fn = "process_pdf" THEN ExceptionStatus(e) ELSE RequestFailed

InitUnit ==
    /\ Quiet
    /\ \E fn \in UnitMethods, f \in UnitFiles, t \in Timeouts :
          probe = [ fn |-> fn, file |-> f, timeout |-> t, st |-> "ready", posts |-> << >>,
                    busy |-> 0, status |-> 0, text |-> "" ]

\* the method opens its input and calls self.post; on a retry the method is
\* entered again and does the same
unit_call ==
    /\ probe.fn \in UnitMethods
    /\ probe.st \in {"ready", "sleeping"}
    /\ \E opened \in BOOLEAN :
          probe' = IF opened
                   THEN [probe EXCEPT !.st = "calling",
                                      !.posts = Append(@, [timeout |->
                                                   PostTimeout(probe.fn, probe.timeout)])]
                   ELSE [probe EXCEPT !.st = "done", !.status = UnitOpenFailed(probe.fn),
                                      !.text = "Failed to open file"]
    /\ UNCHANGED runVars

\* self.post returns or raises; on 503 _handle_server_busy_retry sleeps
unit_respond ==
    /\ probe.fn \in UnitMethods
    /\ probe.st = "calling"
    /\ \/ \E r \in Responses :
             IF IsBusy(r[1])
             THEN /\ probe.busy < MaxBusy
                  /\ probe' = [probe EXCEPT !.st = "sleeping", !.busy = @ + 1]
             ELSE probe' = [probe EXCEPT !.st = "done", !.status = r[1], !.text = r[2]]
       \/ \E e \in PostExceptions :
             probe' = [probe EXCEPT !.st = "done",
                                    !.status = UnitExceptionStatus(probe.fn, e),
                                    !.text = ExceptionText(e)]
    /\ UNCHANGED runVars

NextUnit == unit_call \/ unit_respond

SpecUnit == InitUnit /\ [][NextUnit]_vars

\* ---- process() for a service whose inputs have the extension of its results
\* processCitationPatentST36 takes .xml files and is served by process_pdf;
\* one call of process(), with force=True
InitPatent == InitOf({"processCitationPatentST36"}) /\ force = TRUE

SpecPatent == InitPatent /\ [][Next]_vars

\* ---- the same process() call under two values of config['batch_size']
\* the files of the run that were submitted to the pool
Dispatched == {f \in DOMAIN fate : fate[f].kind # "skipped"}

\* the files of the run that the skip check left out
SkippedFiles == {f \in DOMAIN fate : fate[f].kind = "skipped"}

\* a backend that answers every call with the document and a filesystem on
\* which every write succeeds: no fault is left to happen
InitPair == InitWith({"processFulltextDocument"}, MaxFaults, MaxWriteFailures)

\* the first call has returned; its outcome is kept, the tree is put back as
\* it was, and the same call is made on a client with another batch_size
second_run ==
    /\ pc = "done"
    /\ probe = NoCall
    /\ probe' = [ fn |-> "first_run", batch_size |-> batch_size,
                  dispatched |-> Dispatched, skipped |-> SkippedFiles,
                  processed |-> processed_files_count, errors |-> errors_files_count ]
    /\ batch_size' \in 1..MaxBatch
    /\ disk' = diskAtStart
    /\ diskAtStart' = diskAtStart
    /\ pc' = "idle"
    /\ runNo' = 0
    /\ all_input_files' = << >>
    /\ idx' = 0
    /\ input_files' = << >>
    /\ callSite' = "loop"
    /\ processed_files_count' = 0
    /\ errors_files_count' = 0
    /\ results' = << >>
    /\ pending' = {}
    /\ processed_count' = 0
    /\ error_count' = 0
    /\ fut' = EmptyMap
    /\ skipped' = 0
    /\ warned' = FALSE
    /\ batches' = << >>
    /\ returned' = 0
    /\ backendCalls' = 0
    /\ fate' = EmptyMap
    /\ UNCHANGED << service, output, n, force, flavor, faults, writeFailures >>

\* no unit of work sleeps: the backend never answers 503 here
NextPair ==
    \/ (runNo = 0 /\ process_enumerate)
    \/ process_loop
    \/ process_last
    \/ submit
    \/ JoinPool
    \/ \E f \in pending : Reconcile(f)
    \/ ReturnBatch
    \/ \E f \in DOMAIN fut : WorkerStart(f)
    \/ \E f \in DOMAIN fut : BackendRespond(f)
    \/ second_run

SpecPair == InitPair /\ [][NextPair]_vars

\* ---- process() against a backend that is busy for one file without end
\* the file the backend answers 503 for, every time
StuckJob == probe.stuck

InitBusy ==
    /\ service = "processFulltextDocument"
    /\ output = None
    /\ batch_size \in 1..MaxBatch
    /\ n \in 1..batch_size
    /\ force = TRUE
    /\ flavor = LightFlavor
    /\ \E tree \in SUBSET Pdfs :
          /\ Cardinality(tree) <= MaxTree
          /\ disk = [p \in tree \cup {Notes} |-> InputBody]
          /\ \E stuck \in tree : probe = [fn |-> "backend", stuck |-> stuck]
    /\ pc = "idle"
    /\ runNo = 0
    /\ all_input_files = << >>
    /\ idx = 0
    /\ input_files = << >>
    /\ callSite = "loop"
    /\ processed_files_count = 0
    /\ errors_files_count = 0
    /\ results = << >>
    /\ pending = {}
    /\ processed_count = 0
    /\ error_count = 0
    /\ fut = EmptyMap
    /\ skipped = 0
    /\ warned = FALSE
    /\ batches = << >>
    /\ returned = 0
    /\ backendCalls = 0
    /\ fate = EmptyMap
    /\ diskAtStart = disk
    /\ faults = MaxFaults
    /\ writeFailures = MaxWriteFailures

\* self.post returns: 503 for the stuck file, the document for any other
BusyRespond(f) ==
    /\ f \in DOMAIN fut
    /\ fut[f].st = "calling"
    /\ Respond(f, IF f = StuckJob THEN <<Busy, "busy">> ELSE <<Ok, TeiBody>>)
    /\ UNCHANGED << probe, config, disk, pc, runNo, runLocals, callSite, batchLocals, skipped,
                    warned, batches, returned, backendCalls, fate, diskAtStart, faults,
                    writeFailures >>

NextBusy ==
    \/ process_enumerate
    \/ process_loop
    \/ process_last
    \/ submit
    \/ JoinPool
    \/ \E f \in pending : Reconcile(f)
    \/ ReturnBatch
    \/ \E f \in DOMAIN fut : WorkerStart(f)
    \/ \E f \in DOMAIN fut : BusyRespond(f)
    \/ \E f \in DOMAIN fut : WorkerWake(f)

SpecBusy == InitBusy /\ [][NextBusy]_vars

\* ---- the constructor, ping() and the batch size process() reads
\* the keys of the configuration a constructor argument exists for
ConfigKeys == {"grobid_server", "batch_size", "coordinates", "sleep_time", "timeout"}

\* GrobidClient.DEFAULT_CONFIG, restricted to ConfigKeys
DEFAULT_CONFIG ==
    [ grobid_server |-> "http://localhost:8070",
      batch_size |-> 10,
      sleep_time |-> 5,
      timeout |-> DefaultTimeout,
      coordinates |-> << "title", "persName", "affiliation", "orgName", "formula", "figure",
                         "ref", "biblStruct", "head", "p", "s", "note" >> ]

\* an optional value is the set of its values: None is the empty set
NoArg == {}

Value(opt) == CHOOSE v \in opt : TRUE

\* the values a caller passes to the constructor
ArgValues ==
    [ grobid_server |-> "http://constructor-server:9090",
      batch_size |-> 500,
      sleep_time |-> 10,
      timeout |-> 300,
      coordinates |-> << "constructor_coord" >> ]

\* the values a configuration file gives: for every key a value that is
\* neither the default nor the constructor's, so that a resolved value shows
\* where it came from
FileValues ==
    [ grobid_server |-> "http://config-server:8080",
      batch_size |-> 1000,
      sleep_time |-> 3,
      timeout |-> 60,
      coordinates |-> << "config_coord" >> ]

\* the arguments of the constructor: the keys of given are passed, the others
\* are left to their default None
Params(given) == [k \in ConfigKeys |-> IF k \in given THEN {ArgValues[k]} ELSE NoArg]

\* config_path: None, the path of no file, or the path of a JSON file that
\* defines some of the keys
ConfigPaths ==
    {NoArg} \cup {{[found |-> FALSE, content |-> EmptyMap]}}
            \cup {{[found |-> TRUE, content |-> [k \in defined |-> FileValues[k]]]} :
                      defined \in SUBSET ConfigKeys}

\* the outcomes of requests.get(the_url, timeout=10): a response with a
\* status, or a RequestException
LiveOutcomes ==
    { [raised |-> FALSE, status |-> Ok],
      [raised |-> FALSE, status |-> RequestFailed],
      [raised |-> FALSE, status |-> Busy],
      [raised |-> TRUE, status |-> 0] }

NotTested == [raised |-> "", called |-> FALSE, is_available |-> FALSE, status |-> 0]

\* a bug _load_config could have: a key of the file does not replace the
\* default
_load_config_keep(cfg, file_config) ==
    [k \in DOMAIN cfg \cup DOMAIN file_config |->
        IF k \in DOMAIN cfg THEN cfg[k] ELSE file_config[k]]

\* _load_config, line 242: self.config.update(file_config)
_load_config(cfg, file_config) ==
    [k \in DOMAIN cfg \cup DOMAIN file_config |->
        IF k \in DOMAIN file_config THEN file_config[k] ELSE cfg[k]]

\* _set_config_params: "if value is not None: self.config[key] = value"
_set_config_params(cfg, params) ==
    [k \in DOMAIN cfg \cup {j \in DOMAIN params : params[j] # NoArg} |->
        IF k \in DOMAIN params /\ params[k] # NoArg THEN Value(params[k]) ELSE cfg[k]]

\* a bug _test_server_connection could have: the RequestException is caught
\* and reported as a server that is not available
_test_server_connection_quiet(get) ==
    [ raised |-> "", called |-> TRUE,
      is_available |-> ~get.raised /\ get.status = Ok, status |-> get.status ]

\* _test_server_connection: (True, status) for 200, (False, status) for any
\* other status, ServerUnavailableException for a RequestException
_test_server_connection(get) ==
    IF get.raised
    THEN [raised |-> "ServerUnavailableException", called |-> TRUE,
          is_available |-> FALSE, status |-> 0]
    ELSE [raised |-> "", called |-> TRUE,
          is_available |-> get.status = Ok, status |-> get.status]

\* GrobidClient.__init__: defaults, then the file, then the arguments, then
\* the connection test. An exception leaves the caller without a client.
__init__(params, config_path, check_server, get) ==
    LET missing == config_path # NoArg /\ ~Value(config_path).found
        loaded == IF config_path = NoArg \/ missing
                  THEN DEFAULT_CONFIG
                  ELSE _load_config(DEFAULT_CONFIG, Value(config_path).content)
        cfg == _set_config_params(loaded, params)
        test == IF check_server /\ ~missing THEN _test_server_connection(get) ELSE NotTested
        raised == IF missing THEN "FileNotFoundError" ELSE test.raised
    IN  [ fn |-> "__init__", params |-> params, config_path |-> config_path,
          check_server |-> check_server, init_get |-> get, get |-> get,
          config |-> cfg, raised |-> raised, client |-> raised = "",
          result |-> test, batch_size_pdf |-> 0 ]

InitConstruct ==
    /\ Quiet
    /\ probe = NoCall

\* client = GrobidClient(...)
construct ==
    /\ probe = NoCall
    /\ \E given \in SUBSET ConfigKeys, config_path \in ConfigPaths,
          check_server \in BOOLEAN, get \in LiveOutcomes :
          /\ check_server \/ get.status = Ok
          /\ probe' = __init__(Params(given), config_path, check_server, get)
    /\ UNCHANGED runVars

\* client.ping(): "return self._test_server_connection()"
ping ==
    /\ probe.fn = "__init__"
    /\ probe.client
    /\ \E get \in LiveOutcomes :
          LET test == _test_server_connection(get)
          IN  probe' = [probe EXCEPT !.fn = "ping", !.get = get, !.result = test,
                                     !.raised = test.raised]
    /\ UNCHANGED runVars

\* client.process(...), line 326: batch_size_pdf = self.config["batch_size"]
process_batch_size ==
    /\ probe.fn \in {"__init__", "ping"}
    /\ probe.client
    /\ probe' = [probe EXCEPT !.fn = "process", !.raised = "",
                               !.batch_size_pdf = probe.config.batch_size]
    /\ UNCHANGED runVars

NextConstruct == construct \/ ping \/ process_batch_size

SpecConstruct == InitConstruct /\ [][NextConstruct]_vars

\* ---- the process-pool client of src/grobid_client.py: process_pdf
\* the parameters of process_pdf after self, in order
LegacyParams ==
    << "service", "pdf_file", "input_path", "output", "generateIDs", "consolidate_header",
       "consolidate_citations", "include_raw_citations", "include_raw_affiliations",
       "teiCoordinates", "force", "verbose" >>

\* the positional arguments of executor.submit(self.process_pdf, ...) in
\* process_batch, by the name of the local each one is
LegacySubmitArgs ==
    << "service", "pdf_file", "input_path", "output", "generateIDs", "consolidate_header",
       "consolidate_citations", "include_raw_citations", "include_raw_affiliations",
       "teiCoordinates", "force", "verbose" >>

\* the positional arguments of the retry "return self.process_pdf(...)" after
\* a 503, by the name of the local each one is
LegacyRetryArgs ==
    << "pdf_file", "input_path", "output", "service", "generateIDs", "consolidate_header",
       "consolidate_citations", "include_raw_citations", "include_raw_affiliations",
       "force", "teiCoordinates" >>

\* the input files of the legacy client; values are written as Python writes
\* them, so that an argument bound to the wrong parameter can be compared
LegacyFiles == {"data/a.pdf", "data/sub/a.pdf"}

PyBool == {"True", "False"}

\* a positional call of process_pdf: the i-th argument is bound to the i-th
\* parameter, and verbose, when not passed, takes its default False
LegacyCall(args, locals) ==
    [p \in Range(LegacyParams) |->
        LET i == CHOOSE j \in 1..Len(LegacyParams) : LegacyParams[j] = p
        IN  IF i <= Len(args) THEN locals[args[i]] ELSE "False"]

\* the locals of process_batch when it submits a file
InitLegacy ==
    /\ Quiet
    /\ \E svc \in {"processFulltextDocument", "processHeaderDocument"},
          file \in LegacyFiles, out \in {"None", "res"},
          ids \in PyBool, coords \in PyBool, frc \in PyBool :
          probe = [ fn |-> "legacy_process_pdf", st |-> "submitted", frames |-> << >>,
                    status |-> 0,
                    locals |-> [ service |-> svc, pdf_file |-> file, input_path |-> "data",
                                 output |-> out, generateIDs |-> ids,
                                 consolidate_header |-> "True",
                                 consolidate_citations |-> "False",
                                 include_raw_citations |-> "False",
                                 include_raw_affiliations |-> "False",
                                 teiCoordinates |-> coords, force |-> frc,
                                 verbose |-> "False" ] ]

\* process_pdf is entered with the parameters of frame: no result exists yet,
\* so nothing is skipped; open(pdf_file, "rb") raises for what is no file
LegacyEnter(frame) ==
    probe' = [probe EXCEPT !.frames = Append(@, frame),
                           !.st = IF frame.pdf_file \in LegacyFiles THEN "calling" ELSE "raised"]

\* a process of the pool calls process_pdf with the submitted arguments
legacy_start ==
    /\ probe.fn = "legacy_process_pdf"
    /\ probe.st = "submitted"
    /\ LegacyEnter(LegacyCall(LegacySubmitArgs, probe.locals))
    /\ UNCHANGED runVars

\* self.post returns; on 503 process_pdf sleeps sleep_time
legacy_respond ==
    /\ probe.fn = "legacy_process_pdf"
    /\ probe.st = "calling"
    /\ \E status \in {Ok, NotFound, Busy} :
          /\ status = Busy => Len(probe.frames) <= MaxBusy
          /\ probe' = [probe EXCEPT !.status = status,
                                    !.st = IF status = Busy THEN "sleeping" ELSE "done"]
    /\ UNCHANGED runVars

\* the retry: process_pdf calls itself with the locals of its own frame
legacy_retry ==
    /\ probe.fn = "legacy_process_pdf"
    /\ probe.st = "sleeping"
    /\ LegacyEnter(LegacyCall(LegacyRetryArgs, probe.frames[Len(probe.frames)]))
    /\ UNCHANGED runVars

NextLegacy == legacy_start \/ legacy_respond \/ legacy_retry

SpecLegacy == InitLegacy /\ [][NextLegacy]_vars

\* ------------------------------------------------------------------ claims
InBatch == pc \in {"submit", "join", "reconcile"}

OutPath(f) == _output_file_name(f, InputRoot, output)

Entries(kind) == {f \in DOMAIN fate : fate[f].kind = kind}

RECURSIVE Flatten(_)
Flatten(ss) == IF ss = << >> THEN << >> ELSE Head(ss) \o Flatten(Tail(ss))

Ceil(a, b) == (a + b - 1) \div b

\* C1: when process() returns, the files processed, the files in error and
\* the files skipped add up to the files discovered.
C1_Accounting ==
    pc = "done" =>
        processed_files_count + errors_files_count + skipped = total_files

\* a run that ends with a success, an error and a skip
C1_Witness ==
    /\ pc = "done"
    /\ processed_files_count > 0
    /\ errors_files_count > 0
    /\ skipped > 0

\* C2: a unit of work that has not ended belongs to the batch whose
\* process_batch call is in progress, and that call is waiting on its pool; so
\* no Job of batch k+1 is called before every Job of batch k has its final
\* Outcome, and process_batch calls do not overlap.
C2_BatchBarrier ==
    /\ \A f \in DOMAIN fut :
          ~Finished(f) => (fut[f].batch = Len(batches) /\ pc = "join")
    /\ InBatch => returned = Len(batches) - 1
    /\ pc \in {"loop", "done"} => returned = Len(batches)

\* a first backend call for a Job of the second batch, in a run whose first
\* batch met a backend or open fault
C2_Witness ==
    /\ faults > 0
    /\ \E f \in DOMAIN fut :
          fut[f].batch = 2 /\ fut[f].st = "calling" /\ fut[f].busy = 0

\* C3: the batches are contiguous slices of the eligible list in discovery
\* order, all of batch_size items but the last, which has 1 to batch_size;
\* a run that returns has made ceil(N / batch_size) of them and every
\* eligible file is in exactly one.
C3_BatchPartition ==
    /\ Flatten(batches) = SubSeq(all_input_files, 1, Len(Flatten(batches)))
    /\ \A i \in 1..Len(batches) :
          /\ 1 <= Len(batches[i])
          /\ Len(batches[i]) <= batch_size
          /\ i < Len(batches) => Len(batches[i]) = batch_size
    /\ (pc = "done" /\ total_files > 0) =>
          /\ Len(batches) = Ceil(total_files, batch_size)
          /\ Flatten(batches) = all_input_files
          /\ Cardinality(Range(all_input_files)) = total_files

\* three files in batches of two: a full batch and a batch of one
C3_Witness ==
    /\ pc = "done"
    /\ total_files = 3
    /\ batch_size = 2
    /\ Len(batches) = 2
    /\ Len(batches[1]) = 2
    /\ Len(batches[2]) = 1

\* C4: at most n units of work are executing (in a backend call or in a busy
\* sleep) at any moment, and they are of one batch.
C4_BoundedConcurrency ==
    /\ Cardinality(Executing) <= n
    /\ \A f, g \in Executing : fut[f].batch = fut[g].batch

\* every thread of the pool is taken, one of them in a busy sleep, and a Job
\* waits in the queue
C4_Witness ==
    /\ Cardinality(Executing) = n
    /\ \E f \in Executing : fut[f].st = "sleeping"
    /\ \E f \in DOMAIN fut : fut[f].st = "queued"

C6_FailureIsolation == pc # "raised"

\* C7 as stated: an Outcome is counted as a success if and only if its status
\* is 200 and its body is not empty.
C7_SuccessIffNonEmptyBody ==
    \A f \in DOMAIN fate :
        fate[f].kind # "skipped" =>
            (fate[f].kind = "ok" <=>
                (fate[f].status = Ok /\ fate[f].text # NoneText /\ fate[f].text # ""))

\* C7 as amended: an Outcome is counted as a success (the ok count goes up by
\* one and the body is written to the OutputPath) if and only if its status is
\* 200 and its body is not None; an empty body with status 200 is a success.
C7_SuccessIffBodyPresent ==
    /\ \A f \in DOMAIN fate :
          fate[f].kind # "skipped" =>
              /\ fate[f].kind = "ok" <=> (fate[f].status = Ok /\ fate[f].text # NoneText)
              /\ fate[f].kind = "ok" =>
                    /\ fate[f].path = OutPath(f)
                    /\ fate[f].content = fate[f].text
    /\ InBatch =>
          processed_count =
              Cardinality({f \in Entries("ok") : fate[f].batch = Len(batches)})

\* a 200 with an empty body, written as a success artifact
C7_Witness ==
    \E f \in DOMAIN fate :
        /\ fate[f].kind = "ok"
        /\ fate[f].text = ""
        /\ fate[f].written
        /\ isfile(OutPath(f))
        /\ disk[OutPath(f)] = ""
        /\ processed_count > 0

\* C8 as stated: every Outcome that is not a success leaves an error artifact
\* with the failure body.
C8_ErrorArtifactAlways ==
    \A f \in Entries("error") :
        /\ isfile(fate[f].path)
        /\ disk[fate[f].path] = fate[f].content

ErrorPath(f, status) ==
    File(OutPath(f).dir, splitext(f.name) \o <<StatusToken(status), ".txt">>)

\* C8 as amended: every Outcome with a status other than 200 or with no body
\* adds one to the error count and causes one write, of the failure body or of
\* the empty string, to <stem>_<status>.txt beside the success path, and none
\* to the success path; the artifact is there afterwards unless the write
\* failed. Three files, two successes and a 404: processed_ok = 2,
\* processed_error = 1, and when no write failed and the three paths differ,
\* two success artifacts and one _404.txt.
C8_ErrorReconciliation ==
    /\ \A f \in Entries("error") :
          /\ fate[f].path = ErrorPath(f, fate[f].status)
          /\ fate[f].path # OutPath(f)
          /\ fate[f].content = (IF fate[f].text = NoneText THEN "" ELSE fate[f].text)
          /\ fate[f].written =>
                /\ isfile(fate[f].path)
                /\ \E g \in DOMAIN fate :
                      /\ fate[g].written
                      /\ fate[g].path = fate[f].path
                      /\ disk[fate[f].path] = fate[g].content
          /\ isfile(OutPath(f)) =>
                \/ OutPath(f) \in DOMAIN diskAtStart
                \/ \E g \in Entries("ok") : fate[g].written /\ fate[g].path = OutPath(f)
    /\ InBatch =>
          error_count =
              Cardinality({f \in Entries("error") : fate[f].batch = Len(batches)})
    /\ pc = "done" => errors_files_count = Cardinality(Entries("error"))
    /\ ( /\ pc = "done"
         /\ total_files = 3
         /\ Cardinality(Entries("ok")) = 2
         /\ \E f \in Entries("error") : fate[f].status = NotFound ) =>
          /\ processed_files_count = 2
          /\ errors_files_count = 1
          /\ ( /\ \A f \in DOMAIN fate : fate[f].written
               /\ Cardinality({fate[f].path : f \in DOMAIN fate}) = 3 ) =>
                \A f \in DOMAIN fate :
                    isfile(fate[f].path) /\ disk[fate[f].path] = fate[f].content

\* three files, two successes and a 404, every artifact written
C8_Witness ==
    /\ pc = "done"
    /\ total_files = 3
    /\ processed_files_count = 2
    /\ errors_files_count = 1
    /\ \E f \in Entries("error") :
          /\ fate[f].status = NotFound
          /\ fate[f].path = File(f.dir, <<"a", "_404", ".txt">>)
          /\ isfile(fate[f].path)
          /\ disk[fate[f].path] = "Not Found"
    /\ \A f \in DOMAIN fate : fate[f].written
    /\ Cardinality({fate[f].path : f \in DOMAIN fate}) = 3

C10_EmptyInput ==
    /\ (runNo > 0 /\ total_files = 0) =>
          /\ pc = "done"
          /\ warned
          /\ batches = << >>
          /\ backendCalls = 0
          /\ disk = diskAtStart
          /\ DOMAIN fut = {}
          /\ DOMAIN fate = {}
          /\ skipped = 0
          /\ processed_files_count = 0
          /\ errors_files_count = 0
    /\ warned => total_files = 0

\* a tree with a file, none of them eligible for the service
C10_Witness ==
    /\ runNo > 0
    /\ pc = "done"
    /\ total_files = 0
    /\ warned
    /\ DOMAIN disk # {}

\* C11: _output_file_name is a function of (input_file, input_path, output):
\* repeated calls agree; with an output root the result is the output root,
\* then the directories of the input below input_path, then the stem and the
\* result suffix (data/sub/a.pdf under data with output res gives
\* res/sub/a.grobid.tei.xml); with no output root it is the input's own
\* directory, the stem and the result suffix.
C11_OutputMapping ==
    probe.fn = "_output_file_name" =>
        \A i \in 1..Len(probe.filenames) :
            LET r == probe.filenames[i]
                f == probe.input_file
                below == SubSeq(f.dir, Len(probe.input_path) + 1, Len(f.dir))
            IN  /\ r = probe.filenames[1]
                /\ r.name = splitext(f.name) \o <<".grobid", ".tei", ".xml">>
                /\ probe.output # None => r.dir = probe.output \o below
                /\ probe.output = None => r.dir = f.dir
                /\ ( /\ f = File(<<"data", "sub">>, <<"a", ".pdf">>)
                     /\ probe.input_path = <<"data">>
                     /\ probe.output = <<"res">> ) =>
                      r = File(<<"res", "sub">>, <<"a", ".grobid", ".tei", ".xml">>)

\* data/sub/a.pdf resolved twice under data with output res
C11_Witness ==
    /\ probe.fn = "_output_file_name"
    /\ probe.input_file = File(<<"data", "sub">>, <<"a", ".pdf">>)
    /\ probe.input_path = <<"data">>
    /\ probe.output = <<"res">>
    /\ Len(probe.filenames) = 2
    /\ probe.filenames[2] = File(<<"res", "sub">>, <<"a", ".grobid", ".tei", ".xml">>)

\* C12: a failed artifact write changes nothing but the filesystem: the Job
\* is counted, as ok or as error by its status and body alone; process_batch
\* does not raise and reconciles the other Outcomes; the tallies of the batch
\* and of the run are the numbers of ok and error Outcomes, written or not.
C12_BestEffortWrites ==
    /\ \A f \in DOMAIN fate :
          fate[f].kind # "skipped" =>
              fate[f].kind =
                  (IF fate[f].status = Ok /\ fate[f].text # NoneText THEN "ok" ELSE "error")
    /\ pc = "raised" => \A f \in DOMAIN fate : fate[f].kind = "skipped"
    /\ pc = "reconcile" =>
          /\ processed_count =
                Cardinality({f \in Entries("ok") : fate[f].batch = Len(batches)})
          /\ error_count =
                Cardinality({f \in Entries("error") : fate[f].batch = Len(batches)})
          /\ \A f \in Range(results) \ pending : f \in DOMAIN fate
    /\ pc = "done" =>
          /\ processed_files_count = Cardinality(Entries("ok"))
          /\ errors_files_count = Cardinality(Entries("error"))
          /\ \A f \in Range(all_input_files) : f \in DOMAIN fate

\* a write failed in the first batch; the run went on to a second batch and
\* returned, with the Job of the failed write in its tally
C12_Witness ==
    /\ pc = "done"
    /\ Len(batches) = 2
    /\ \E f \in Entries("ok") : fate[f].batch = 1 /\ ~fate[f].written
    /\ \E g \in DOMAIN fate : fate[g].batch = 2 /\ fate[g].written
    /\ processed_files_count + errors_files_count = total_files
    /\ processed_files_count = Cardinality(Entries("ok"))

\* C13: only the busy signal makes process_pdf call again: a unit of work
\* sleeps only after a 503, sleeps once for each 503 and calls the backend at
\* most once more than it got a 503; a call that times out, fails in transport
\* or cannot open its input, or an answer with an error status other than 503,
\* ends the unit of work with that error, which is counted as an error and
\* written (when the write does not fail) to the error artifact of its status.
C13_OnlyBusyRetries ==
    /\ \A f \in DOMAIN fut :
          /\ fut[f].sleeps = fut[f].busy
          /\ fut[f].calls <= fut[f].busy + 1
          /\ fut[f].st = "sleeping" => fut[f].lastStatus = Busy
          /\ fut[f].busy = 0 => (fut[f].calls <= 1 /\ fut[f].sleeps = 0)
          /\ (fut[f].st = "done" /\ fut[f].status # Ok) =>
                fut[f].status \in {OpenFailed, TimedOut, RequestFailed, NotFound}
    /\ \A f \in DOMAIN fate :
          (fate[f].kind # "skipped" /\ fate[f].status # Ok) =>
              /\ fate[f].kind = "error"
              /\ fate[f].path =
                    File(OutPath(f).dir,
                         splitext(f.name) \o <<StatusToken(fate[f].status), ".txt">>)
              /\ fate[f].written => isfile(fate[f].path)

\* a call that timed out: one call, no sleep, counted as an error and
\* written to a_408.txt
C13_Witness ==
    \E f \in DOMAIN fut \cap DOMAIN fate :
        /\ fut[f].status = TimedOut
        /\ fut[f].calls = 1
        /\ fut[f].sleeps = 0
        /\ fate[f].kind = "error"
        /\ fate[f].written
        /\ fate[f].path = File(f.dir, <<"a", "_408", ".txt">>)
        /\ isfile(fate[f].path)
        /\ error_count > 0

Reflected ==
    /\ pc = "done"
    /\ \A f \in Range(all_input_files) : f \in DOMAIN fate

\* C14: under fairness, a run of process() that has discovered its Jobs
\* eventually returns, with every discovered Job reflected in one write
\* attempt or one skip entry.
C14_EventuallyReflected == (pc = "loop") ~> Reflected

\* the same for the services that process_batch dispatches to process_pdf
ReflectedUnderProcessPdf ==
    (pc = "loop" /\ SelectedProcess(service) = "process_pdf") ~> Reflected

\* the input kind the claim gives each service
AcceptedKind(svc, name) ==
    CASE svc = "processCitationList" -> endswith(name, ".txt") \/ endswith(name, ".TXT")
      [] svc = "processCitationPatentST36" -> endswith(name, ".xml") \/ endswith(name, ".XML")
      [] OTHER -> endswith(name, ".pdf") \/ endswith(name, ".PDF")

\* C15: the files discovered, and so dispatched, are exactly the files of the
\* tree whose extension is the accepted input kind of the requested service.
C15_OnlyAcceptedKind ==
    runNo > 0 =>
        Range(all_input_files) =
            {f \in DOMAIN diskAtStart : AcceptedKind(service, f.name)}

\* C16: two distinct Jobs of a run have distinct success-artifact paths, and
\* no artifact on the filesystem that was written for one Job has been
\* overwritten by the write for another.
C16_DisjointArtifacts ==
    /\ \A f, g \in Range(all_input_files) : f # g => OutPath(f) # OutPath(g)
    /\ \A f \in DOMAIN fate :
          (fate[f].written /\ isfile(fate[f].path)) => disk[fate[f].path] = fate[f].content

\* the Outcomes of one kind reconciled in the batches before the k-th
Before(kind, k) == Cardinality({f \in Entries(kind) : fate[f].batch < k})

\* C17: while process_batch is running for batch k, and so whenever a worker
\* of batch k is running, the run counters are the totals of batches 1..k-1;
\* between batches they are the totals of the batches that have returned.
C17_CounterStability ==
    /\ (InBatch \/ Live # {}) =>
          /\ processed_files_count = Before("ok", Len(batches))
          /\ errors_files_count = Before("error", Len(batches))
    /\ pc \in {"loop", "done"} =>
          /\ processed_files_count = Before("ok", Len(batches) + 1)
          /\ errors_files_count = Before("error", Len(batches) + 1)

\* a worker of the second batch is in its backend call; the run counters
\* hold the first batch, while process_batch has counted nothing yet
C17_Witness ==
    /\ \E f \in Executing : fut[f].batch = 2
    /\ processed_files_count + errors_files_count = Len(batches[1])
    /\ processed_files_count > 0
    /\ processed_count = 0
    /\ error_count = 0

\* C18: every self.post call of a unit of work, of process_pdf and of
\* process_txt, the first and every retry, is given config['timeout'] as its
\* timeout.
C18_EveryCallHasDeadline ==
    probe.fn \in UnitMethods =>
        \A i \in 1..Len(probe.posts) : probe.posts[i].timeout = {probe.timeout}

\* C19: every unit of work that calls the backend was given the service and
\* the flavor that process() was given, in the full batches and in the last
\* one, on the first call and on every retry.
C19_OptionInvariance ==
    \A f \in DOMAIN fut :
        fut[f].calls > 0 => (fut[f].service = service /\ fut[f].flavor = flavor)

\* the Jobs of the batch in progress that process_batch has reconciled
ReconciledNow ==
    {f \in DOMAIN fate : fate[f].kind # "skipped" /\ fate[f].batch = Len(batches)}

\* C20: however often the backend was called for it, a Job is reconciled at
\* most once in a run: one write attempt, to the success path or to the
\* error path and never to both, so at most one success artifact per Job.
C20_AtMostOneWrite ==
    /\ InBatch => processed_count + error_count = Cardinality(ReconciledNow)
    /\ pc = "reconcile" => ReconciledNow = Range(results) \ pending
    /\ \A f \in DOMAIN fate :
          /\ fate[f].kind = "ok" => fate[f].path = OutPath(f)
          /\ fate[f].kind = "error" =>
                /\ fate[f].path # OutPath(f)
                /\ isfile(OutPath(f)) =>
                      \/ OutPath(f) \in DOMAIN diskAtStart
                      \/ \E g \in Entries("ok") \ {f} : fate[g].path = OutPath(f)
    /\ pc = "done" =>
          processed_files_count + errors_files_count =
              Cardinality({f \in DOMAIN fate : fate[f].kind # "skipped"})

\* the backend saw the document twice, and one success artifact was written
C20_Witness ==
    \E f \in DOMAIN fut \cap Entries("ok") :
        /\ fut[f].calls = 2
        /\ fate[f].written
        /\ isfile(OutPath(f))
        /\ processed_count = 1
        /\ error_count = 0

\* C21: dispatch and reconciliation are separate. Every step that writes an
\* artifact, or tries to, is a step of the coordinating thread in the
\* reconciliation loop of process_batch, taken when no unit of work of the
\* pool is queued, calling or sleeping: no file is written while a unit of
\* the batch is running, and no step of a worker writes a file.
C21_WritesAfterDrain ==
    [][ (disk' # disk \/ writeFailures' # writeFailures)
           => /\ pc = "reconcile"
              /\ Live = {}
              /\ fut' = fut ]_vars

\* a batch of two units of work has been drained and the coordinating thread
\* has written the artifact of one of them
C21_Witness ==
    /\ pc = "reconcile"
    /\ Len(results) = 2
    /\ Live = {}
    /\ \E f \in Range(results) :
          /\ f \in DOMAIN fate
          /\ fate[f].batch = Len(batches)
          /\ fate[f].written
          /\ fate[f].path \in DOMAIN disk

\* the files of the current batch that the skip check left out
SkippedInBatch ==
    {f \in Range(input_files) :
        f \in DOMAIN fate /\ fate[f].kind = "skipped" /\ fate[f].batch = Len(batches)}

C22_WitnessSkipped ==
    /\ pc = "reconcile"
    /\ pending = {}
    /\ Len(input_files) = 2
    /\ Cardinality(SkippedInBatch) = 1
    /\ processed_count = 1
    /\ error_count = 0

\* the units of work that ended in an except clause of requests: the request
\* timed out or failed below HTTP, and no response was received
TransportFailed ==
    {f \in DOMAIN fut :
        /\ fut[f].st = "done"
        /\ fut[f].text \in {ExceptionText(e) : e \in PostExceptions}}

\* C23: a unit of work whose request failed at transport level (a timeout, a
\* failed connection) ends with status code -1, a code no response of the
\* service can carry.
C23_TransportStatus ==
    \A f \in TransportFailed : fut[f].status = -1

\* the constructor was called, probe holds what it did
Constructed == probe.fn \in {"__init__", "ping", "process"}

\* the liveness request of the constructor was made and failed below HTTP
PreflightUnreachable ==
    /\ probe.check_server
    /\ probe.raised # "FileNotFoundError"
    /\ probe.init_get.raised

\* C24: with check_server=True a liveness request that fails at transport
\* level makes the constructor raise ServerUnavailableException, no client
\* exists and so process() is never called on it; a liveness request answered
\* with a status other than 200 raises nothing: the check returns
\* (False, status), from the constructor (which goes on and yields a client)
\* as from ping().
C24_PreflightLiveness ==
    /\ (probe.fn = "__init__" /\ PreflightUnreachable)
          => probe.raised = "ServerUnavailableException" /\ ~probe.client
    /\ (probe.fn = "process") => probe.client /\ ~PreflightUnreachable
    /\ (probe.fn \in {"__init__", "ping"} /\ probe.result.called /\ ~probe.get.raised)
          => /\ probe.raised = ""
             /\ probe.client
             /\ probe.result.is_available = (probe.get.status = Ok)
             /\ probe.result.status = probe.get.status
    /\ (probe.fn = "ping" /\ probe.get.raised)
          => probe.raised = "ServerUnavailableException"

\* the constructor has raised ServerUnavailableException
C24_Witness ==
    /\ probe.fn = "__init__"
    /\ PreflightUnreachable
    /\ probe.raised = "ServerUnavailableException"

\* the constructor has made a client of a server that answered 503, and
\* process() is called on it
C24_WitnessNon200 ==
    /\ probe.fn = "process"
    /\ probe.check_server
    /\ probe.init_get.status = Busy
    /\ probe.result = [raised |-> "", called |-> TRUE, is_available |-> FALSE, status |-> Busy]

\* the constructor read a configuration file that defines key k
FileDefines(k) ==
    /\ probe.config_path # NoArg
    /\ k \in DOMAIN Value(probe.config_path).content

\* C25: for each of grobid_server, batch_size, coordinates, sleep_time and
\* timeout the resolved value is the constructor argument when it is not
\* None, else the value of the configuration file when the file defines the
\* key, else the built-in default; an argument of None replaces nothing.
C25_Precedence ==
    (Constructed /\ probe.client) =>
       \A k \in ConfigKeys :
          /\ probe.params[k] # NoArg => probe.config[k] = ArgValues[k]
          /\ (probe.params[k] = NoArg /\ FileDefines(k)) => probe.config[k] = FileValues[k]
          /\ (probe.params[k] = NoArg /\ ~FileDefines(k)) => probe.config[k] = DEFAULT_CONFIG[k]

\* a client built with batch_size and timeout as arguments over a file that
\* defines batch_size and sleep_time: one key from each of the three origins,
\* and a None argument over a file's value
C25_Witness ==
    /\ probe.fn = "__init__"
    /\ probe.client
    /\ probe.params["batch_size"] # NoArg
    /\ probe.params["sleep_time"] = NoArg
    /\ FileDefines("batch_size")
    /\ FileDefines("sleep_time")
    /\ ~FileDefines("coordinates")
    /\ probe.params["coordinates"] = NoArg
    /\ probe.config["batch_size"] = 500
    /\ probe.config["sleep_time"] = 3
    /\ probe.config["coordinates"] = DEFAULT_CONFIG["coordinates"]

\* C26: a client built with no batch_size argument and no batch_size in a
\* configuration file cuts its batches at 1000 files.
C26_DefaultBatchSize ==
    ( /\ probe.fn = "process"
      /\ probe.params["batch_size"] = NoArg
      /\ ~FileDefines("batch_size") )
       => probe.batch_size_pdf = 1000

\* C27: against a backend that answers 503 for one file every time, the Job
\* of that file never gets a terminal outcome: its future never ends, it is
\* never reconciled, its batch never returns and process() never returns.
C27_NeverTerminal ==
    /\ StuckJob \in DOMAIN fut => ~Finished(StuckJob)
    /\ StuckJob \notin DOMAIN fate
    /\ StuckJob \in DOMAIN fut => returned < fut[StuckJob].batch
    /\ pc # "done"

\* an error artifact of input file f is on disk
HasErrorArtifact(f) ==
    \E status \in {NotFound, OpenFailed, TimedOut, RequestFailed} :
       isfile(_error_file_name(OutPath(f), status))

\* C28: the skip check looks at the success artifact only. When a batch has
\* been submitted (no file is written between the check and the end of the
\* submissions), a file of the batch was skipped exactly when force is False
\* and a file exists at its success-artifact path, and every other file of
\* the batch was submitted; an error artifact of an earlier run does not make
\* a file skipped.
C28_SkipCheckScope ==
    pc = "join" =>
       \A f \in Range(input_files) :
          /\ f \in SkippedInBatch <=> (~force /\ isfile(OutPath(f)))
          /\ f \in Range(results) <=> f \notin SkippedInBatch
          /\ (HasErrorArtifact(f) /\ ~isfile(OutPath(f))) => f \in Range(results)

\* in a second run with force=False a file whose first run left an error
\* artifact has been submitted again, next to a file that was skipped
C28_Witness ==
    /\ pc = "join"
    /\ runNo = 2
    /\ ~force
    /\ \E f \in Range(results) : HasErrorArtifact(f) /\ ~isfile(OutPath(f))
    /\ SkippedInBatch # {}

\* C29: the path the skip check tests and the path the reconciliation writes
\* are the same for every file. Each skipped file was skipped on the path
\* _output_file_name gives it, each success artifact is written at that path,
\* and each error artifact at the path derived from it; so a success artifact
\* written by one run is the file the skip check of the next run finds.
C29_CheckWriteAgreement ==
    \A f \in DOMAIN fate :
       /\ fate[f].kind = "skipped" =>
             /\ fate[f].path = OutPath(f)
             /\ isfile(fate[f].path)
       /\ fate[f].kind = "ok" => fate[f].path = OutPath(f)
       /\ fate[f].kind = "error" => fate[f].path = _error_file_name(OutPath(f), fate[f].status)
       /\ (fate[f].kind = "ok" /\ fate[f].written) => isfile(OutPath(f))

\* a second run has skipped the file of a subdirectory on the artifact the
\* first run wrote for it
C29_Witness ==
    /\ runNo = 2
    /\ \E f \in DOMAIN fate :
          /\ f.dir # InputRoot
          /\ fate[f].kind = "skipped"
          /\ fate[f].path \in DOMAIN disk
          /\ disk[fate[f].path] = TeiBody

\* the files under the input root that the service takes, as the tree was
\* when process() was called
EligibleAtStart ==
    {p \in DOMAIN diskAtStart : IsPrefix(InputRoot, p.dir) /\ Eligible(p.name, service)}

\* C30: the walk is complete before anything is dispatched. Before the first
\* process_batch call of a run no backend call and no skip check has been
\* made; from the end of the walk to the end of the run the eligible list
\* holds, once each, the eligible files the tree had when process() was
\* called, and the total is their number, whatever the run has written into
\* the input tree since.
C30_EnumerationFirst ==
    /\ pc = "idle" => backendCalls = 0 /\ fut = EmptyMap /\ fate = EmptyMap
    /\ runNo > 0 =>
          /\ Range(all_input_files) = EligibleAtStart
          /\ Len(all_input_files) = Cardinality(EligibleAtStart)
          /\ total_files = Cardinality(EligibleAtStart)
          /\ batches = << >> => backendCalls = 0 /\ skipped = 0 /\ fate = EmptyMap
          /\ Range(Flatten(batches)) \subseteq EligibleAtStart

\* the run of a service that takes .xml files has written a result into the
\* input tree: the tree now holds an eligible file that the list does not
C30_Witness ==
    /\ runNo > 0
    /\ \E p \in DOMAIN disk \ DOMAIN diskAtStart :
          /\ IsPrefix(InputRoot, p.dir)
          /\ Eligible(p.name, service)
          /\ p \notin Range(all_input_files)
    /\ pc \in {"loop", "submit", "join"}

\* C31: the input tree is read-only across runs. No file a run has written is
\* an eligible input of a later run of the same service on the same roots: a
\* walk of the tree as the run has left it finds the files the run's own walk
\* found, so a second run discovers as many files as the first.
C31_ArtifactsNotEligible ==
    runNo > 0 =>
       /\ \A p \in DOMAIN disk \ DOMAIN diskAtStart :
             ~(IsPrefix(InputRoot, p.dir) /\ Eligible(p.name, service))
       /\ Len(Walk(DOMAIN disk, InputRoot, service)) = total_files

\* C32: the batch size changes only the grouping of the work. When the same
\* call has been made on the same tree, with the same backend behaviour and
\* the same force, under two batch sizes, the files submitted, the files
\* skipped and the final counters of the second call are those of the first.
C32_BatchSizeIndependence ==
    (probe.fn = "first_run" /\ pc = "done") =>
       /\ Dispatched = probe.dispatched
       /\ SkippedFiles = probe.skipped
       /\ processed_files_count = probe.processed
       /\ errors_files_count = probe.errors

\* C33: without force nothing is overwritten. In a run with force=False every
\* step that writes a success artifact writes it at a path where no file is,
\* be it a file from before the run or one the run wrote earlier.
C33_NoOverwriteWithoutForce ==
    [][ ~force =>
           \A f \in DOMAIN fate' \ DOMAIN fate :
              (fate'[f].kind = "ok" /\ fate'[f].written) => fate'[f].path \notin DOMAIN disk
      ]_vars

\* the Jobs of the stuck Job's batch that were submitted after it
BehindStuckJob ==
    {g \in DOMAIN fut : /\ g # StuckJob
                        /\ fut[g].batch = fut[StuckJob].batch
                        /\ fut[g].ord > fut[StuckJob].ord}

\* C34: a Job in a busy retry holds its worker slot. With one worker (n = 1),
\* once the Job that is answered 503 every time has been started, no Job
\* submitted after it in its batch is ever started: each stays in the queue.
C34_SlotHeldWhileBusy ==
    (n = 1 /\ StuckJob \in DOMAIN fut /\ fut[StuckJob].st # "queued")
       => \A g \in BehindStuckJob : fut[g].st = "queued"

\* C35: a Job in flight holds at most one open handle on its input file, also
\* during its busy retries, so at most n handles are open at any moment; and
\* a unit of work that has returned holds none.
C35_InputHandleBound ==
    /\ \A f \in DOMAIN fut : fut[f].handles <= 1
    /\ Cardinality({f \in DOMAIN fut : fut[f].handles > 0}) <= n
    /\ \A f \in DOMAIN fut : Finished(f) => fut[f].handles = 0

\* C36: in the process-pool client the retry after a 503 is a call of
\* process_pdf for the same Job: every call of process_pdf made for a
\* submitted file has the service, input file, input root, output root,
\* option flags and force of the first.
C36_LegacyRetrySameJob ==
    probe.fn = "legacy_process_pdf" =>
       \A i \in 1..Len(probe.frames) : probe.frames[i] = probe.frames[1]

====
